---- MODULE Spec2Model ----
(***************************************************************************)
(* photo-cleanup (src/src/main.rs): one invocation of `clean` or           *)
(* `clean-matched` against a small file system.                            *)
(*                                                                         *)
(* A file name is a sequence of one-character strings, a path is a         *)
(* sequence of file names (its components below the file-system root).     *)
(* An Option value is a set: {} is None, {x} is Some(x).                   *)
(***************************************************************************)
EXTENDS Integers, Sequences, FiniteSets, TLC

VARIABLES
    files,            \* regular files present in the file system (paths)
    dirs,             \* directories present in the file system (paths)
    locked,           \* files on which fs::remove_file fails
    unreadable,       \* directories whose listing fails during the walk
    raw,              \* CleanArgs.raw
    compressed,       \* CleanArgs.compressed
    dry,              \* CleanArgs.dry
    verbose,          \* CleanArgs.verbose
    summary_only,     \* CleanArgs.summary_only
    mode,             \* DeleteMode handed to run_clean by main
    pc,               \* position of the single thread of control
    exit_code,        \* {} while running, {n} once the process has ended
    jpeg_files,       \* clean_photos: the discovered list
    next_jpeg,        \* index of the next element of the classification loop
    to_delete,        \* clean_photos: the deletion plan
    next_delete,      \* index of the next element of the deletion loop
    errors,           \* clean_photos: files whose removal failed
    matched_count,    \* clean_photos: matched_count
    unmatched_count,  \* clean_photos: unmatched_count ({} before line 208)
    out,              \* lines written to stdout and stderr, in order
    call,             \* the latest find_matching_raw call: argument, probes, result
    raw_matches,      \* every path find_matching_raw has returned so far
    removals,         \* arguments of the fs::remove_file calls so far, in order
    files0            \* the files present when the process started

vars == <<files, dirs, locked, unreadable, raw, compressed, dry, verbose,
          summary_only, mode, pc, exit_code, jpeg_files, next_jpeg, to_delete,
          next_delete, errors, matched_count, unmatched_count, out, call,
          raw_matches, removals, files0>>

----------------------------------------------------------------------------
(* Bounds *)

\* Largest number of regular files in the file system of a run.
MaxFiles == 3

----------------------------------------------------------------------------
(* Characters, file names and paths *)

\* The elements of a sequence.
Range(s) == {s[i] : i \in 1..Len(s)}

LowerChars ==
    <<"a", "b", "c", "d", "e", "f", "g", "h", "i", "j", "k", "l", "m",
      "n", "o", "p", "q", "r", "s", "t", "u", "v", "w", "x", "y", "z">>

UpperChars ==
    <<"A", "B", "C", "D", "E", "F", "G", "H", "I", "J", "K", "L", "M",
      "N", "O", "P", "Q", "R", "S", "T", "U", "V", "W", "X", "Y", "Z">>

\* The lower-case letter of every upper-case letter, and the converse.
LowerOf == [c \in Range(UpperChars) |->
               LowerChars[CHOOSE k \in 1..Len(UpperChars) : UpperChars[k] = c]]
UpperOf == [c \in Range(LowerChars) |->
               UpperChars[CHOOSE k \in 1..Len(LowerChars) : LowerChars[k] = c]]

\* str::to_lowercase, character by character.
to_lowercase(s) ==
    [i \in 1..Len(s) |-> IF s[i] \in DOMAIN LowerOf THEN LowerOf[s[i]] ELSE s[i]]

\* str::to_uppercase, character by character.
to_uppercase(s) ==
    [i \in 1..Len(s) |-> IF s[i] \in DOMAIN UpperOf THEN UpperOf[s[i]] ELSE s[i]]

\* Position of the last "." of a file name, 0 when it has none.
LastDot(name) ==
    IF \E i \in 1..Len(name) : name[i] = "."
    THEN CHOOSE i \in 1..Len(name) :
            /\ name[i] = "."
            /\ \A j \in (i + 1)..Len(name) : name[j] # "."
    ELSE 0

\* Path::file_name: the last component, None for the empty path.
file_name(path) == IF path = <<>> THEN {} ELSE {path[Len(path)]}

\* Path::extension: None without a file name, without a "." or when the only
\* "." is the first character; otherwise what follows the last ".".
extension(path) ==
    IF file_name(path) = {} THEN {}
    ELSE LET name == path[Len(path)]
             d    == LastDot(name)
         IN  IF d <= 1 THEN {} ELSE {SubSeq(name, d + 1, Len(name))}

\* Path::file_stem: the whole name when extension is None, otherwise what
\* precedes the last ".".
file_stem(path) ==
    IF file_name(path) = {} THEN {}
    ELSE LET name == path[Len(path)]
             d    == LastDot(name)
         IN  IF d <= 1 THEN {name} ELSE {SubSeq(name, 1, d - 1)}

\* Path::parent: the path without its last component, None for the empty one.
parent(path) == IF path = <<>> THEN {} ELSE {SubSeq(path, 1, Len(path) - 1)}

\* Path::join with a relative path.
join(base, rel) == base \o rel

\* Path::strip_prefix(..).ok(): None unless base is a prefix of path.
strip_prefix(path, base) ==
    IF Len(base) <= Len(path) /\ SubSeq(path, 1, Len(base)) = base
    THEN {SubSeq(path, Len(base) + 1, Len(path))}
    ELSE {}

\* format!("{}.{}", stem, ext)
format_name(stem, ext) == stem \o <<".">> \o ext

\* The value inside Some(x).
Unwrap(opt) == CHOOSE x \in opt : TRUE

----------------------------------------------------------------------------
(* The file system *)

\* Path::exists
exists(path) == path \in files \/ path \in dirs

\* Path::is_dir
is_dir(path) == path \in dirs

----------------------------------------------------------------------------
(* The file systems and command lines a run is checked on *)

DirC  == << <<"c">> >>
DirR  == << <<"r">> >>
DirCS == << <<"c">>, <<"s">> >>
DirRS == << <<"r">>, <<"s">> >>

\* The directories present: one root missing, both roots, and both roots
\* with the subdirectory of c or of both.
DirChoices ==
    { {DirC}, {DirR}, {DirC, DirR}, {DirC, DirR, DirCS},
      {DirC, DirR, DirCS, DirRS} }

FileUniverse ==
    { DirC  \o << <<"a", ".", "j", "p", "g">> >>,
      DirC  \o << <<"b", ".", "J", "p", "e", "g">> >>,
      DirC  \o << <<"a", ".", "r", "a", "f">> >>,
      DirC  \o << <<".", "j", "p", "g">> >>,
      DirCS \o << <<"a", ".", "j", "p", "g">> >>,
      DirR  \o << <<"a", ".", "r", "a", "f">> >>,
      DirR  \o << <<"a", ".", "R", "A", "F">> >>,
      DirR  \o << <<"a", ".", "c", "r", "2">> >>,
      DirR  \o << <<"b", ".", "N", "E", "F">> >>,
      DirRS \o << <<"a", ".", "R", "A", "W">> >> }

\* <<raw, compressed>>: disjoint roots, the same root, one root inside the
\* other, and a root that is a regular file.
RootPairs ==
    { <<DirR, DirC>>, <<DirC, DirC>>, <<DirCS, DirC>>, <<DirC, DirCS>>,
      <<DirR \o << <<"a", ".", "r", "a", "f">> >>, DirC>>,
      <<DirR, DirC \o << <<"a", ".", "j", "p", "g">> >> >> }

\* A tree: every file and every directory lies in a directory of the tree
\* or directly below the file-system root.
IsTree(F, D) ==
    /\ \A f \in F : Len(f) > 1 => Unwrap(parent(f)) \in D
    /\ \A d \in D : Len(d) > 1 => Unwrap(parent(d)) \in D

\* path is root or lies below it.
Under(path, root) == strip_prefix(path, root) # {}

\* The file systems of a run with the roots rp: what lies outside both trees
\* is never read or written and is left out, as is an empty subdirectory of
\* c, and a root that names a regular file names one that is present (a
\* missing root is a missing directory).
Relevant(F, D, rp) ==
    /\ IsTree(F, D)
    /\ DirCS \in D => \E f \in F : parent(f) = {DirCS}
    /\ \A f \in F : Under(f, rp[1]) \/ Under(f, rp[2])
    /\ \A i \in {1, 2} : rp[i] \in FileUniverse => rp[i] \in F

----------------------------------------------------------------------------
(* Discovery: is_jpeg and get_jpeg_files *)

\* "jpg" and "jpeg", the operands of the comparisons in is_jpeg.
Jpg  == <<"j", "p", "g">>
Jpeg == <<"j", "p", "e", "g">>

\* is_jpeg accepting every extension.
is_jpeg_any_extension(path) == extension(path) # {}

is_jpeg(path) ==
    IF extension(path) # {}
    THEN LET ext_lower == to_lowercase(Unwrap(extension(path)))
         IN  ext_lower = Jpg \/ ext_lower = Jpeg
    ELSE FALSE

\* The entries of a directory.
Entries(d) == {p \in files \cup dirs : parent(p) = {d}}

RECURSIVE Walk(_), WalkEntries(_)

\* WalkDir::new(p).into_iter().filter_map(|e| e.ok()), already filtered by
\* line 120: the sequences of JPEG paths a depth-first walk from p can push.
\* A directory yields its entries in any order; an entry that is a directory
\* is walked before the next entry; a directory that cannot be listed yields
\* an error, which filter_map drops.
Walk(p) ==
    IF p \in files THEN {IF is_jpeg(p) THEN <<p>> ELSE <<>>}
    ELSE IF p \in dirs /\ p \notin unreadable THEN WalkEntries(Entries(p))
    ELSE {<<>>}

WalkEntries(S) ==
    IF S = {} THEN {<<>>}
    ELSE UNION {{a \o b : a \in Walk(e), b \in WalkEntries(S \ {e})} : e \in S}

get_jpeg_files(compressed_root) == Walk(compressed_root)

----------------------------------------------------------------------------
(* Matching: find_matching_raw *)

\* raw_extensions with its first two elements exchanged.
raw_extensions_cr2_first ==
    << <<"c", "r", "2">>, <<"r", "a", "f">>, <<"c", "r", "3">>,
       <<"n", "e", "f">>, <<"a", "r", "w">>, <<"d", "n", "g">>,
       <<"o", "r", "f">>, <<"r", "w", "2">>, <<"r", "a", "w">> >>

raw_extensions ==
    << <<"r", "a", "f">>, <<"c", "r", "2">>, <<"c", "r", "3">>,
       <<"n", "e", "f">>, <<"a", "r", "w">>, <<"d", "n", "g">>,
       <<"o", "r", "f">>, <<"r", "w", "2">>, <<"r", "a", "w">> >>

RECURSIVE Probe(_, _, _, _)

\* The loop of lines 148-161 from the k-th extension on; probed is the
\* sequence of paths whose existence has been tested so far.
Probe(raw_dir, stem, k, probed) ==
    IF k > Len(raw_extensions) THEN [ret |-> {}, probed |-> probed]
    ELSE LET ext                 == raw_extensions[k]
             potential_raw       == join(raw_dir, <<format_name(stem, ext)>>)
             potential_raw_upper ==
                 join(raw_dir, <<format_name(stem, to_uppercase(ext))>>)
         IN  IF exists(potential_raw)
             THEN [ret |-> {potential_raw},
                   probed |-> Append(probed, potential_raw)]
             ELSE IF exists(potential_raw_upper)
             THEN [ret |-> {potential_raw_upper},
                   probed |-> probed \o <<potential_raw, potential_raw_upper>>]
             ELSE Probe(raw_dir, stem, k + 1,
                        probed \o <<potential_raw, potential_raw_upper>>)

\* find_matching_raw without the test of lines 140-142.
find_matching_raw_unguarded(compressed_file, compressed_root, raw_root) ==
    LET relative_path == strip_prefix(compressed_file, compressed_root)
        nothing       == [ret |-> {}, raw_dir |-> {}, probed |-> <<>>]
    IN  IF relative_path = {} THEN nothing
        ELSE IF parent(Unwrap(relative_path)) = {} THEN nothing
        ELSE IF file_stem(compressed_file) = {} THEN nothing
        ELSE LET parent_dir == Unwrap(parent(Unwrap(relative_path)))
                 stem       == Unwrap(file_stem(compressed_file))
                 raw_dir    == join(raw_root, parent_dir)
                 r          == Probe(raw_dir, stem, 1, <<>>)
             IN  [ret |-> r.ret, raw_dir |-> {raw_dir}, probed |-> r.probed]

\* The result (ret), the candidate directory when it was computed (raw_dir)
\* and the candidate files whose existence was tested (probed).
find_matching_raw(compressed_file, compressed_root, raw_root) ==
    LET relative_path == strip_prefix(compressed_file, compressed_root)
        nothing       == [ret |-> {}, raw_dir |-> {}, probed |-> <<>>]
    IN  IF relative_path = {} THEN nothing
        ELSE IF parent(Unwrap(relative_path)) = {} THEN nothing
        ELSE IF file_stem(compressed_file) = {} THEN nothing
        ELSE LET parent_dir == Unwrap(parent(Unwrap(relative_path)))
                 stem       == Unwrap(file_stem(compressed_file))
                 raw_dir    == join(raw_root, parent_dir)
             IN  IF ~exists(raw_dir)
                 THEN [ret |-> {}, raw_dir |-> {raw_dir}, probed |-> <<>>]
                 ELSE LET r == Probe(raw_dir, stem, 1, <<>>)
                      IN  [ret |-> r.ret, raw_dir |-> {raw_dir},
                           probed |-> r.probed]

----------------------------------------------------------------------------
(* Output *)

\* One println! (stream "out") or eprintln! (stream "err"): what the line
\* is, the path or paths it displays and the number it displays, <<>> and 0
\* when it displays none.
Line(stream, kind, file, rawfile, n) ==
    [stream |-> stream, kind |-> kind, file |-> file, raw |-> rawfile, n |-> n]

\* The lines that display the path of one file.
PerFileKinds == {"MATCH", "NO_MATCH", "would_delete", "deleted", "error_deleting"}

----------------------------------------------------------------------------
(* Initial states: a file system and a parsed command line *)

Init ==
    /\ \E rp \in RootPairs :
          /\ raw = rp[1]
          /\ compressed = rp[2]
          /\ files \in {F \in SUBSET FileUniverse : Cardinality(F) <= MaxFiles}
          /\ dirs \in {D \in DirChoices : Relevant(files, D, rp)}
    /\ locked \in SUBSET {f \in files : is_jpeg(f)}
    /\ unreadable \in SUBSET (dirs \cap {DirCS})
    /\ dry \in BOOLEAN
    /\ verbose \in BOOLEAN
    /\ summary_only \in BOOLEAN
    /\ mode \in {"Orphaned", "Matched"}
    /\ pc = "run_clean"
    /\ exit_code = {}
    /\ jpeg_files = <<>>
    /\ next_jpeg = 1
    /\ to_delete = <<>>
    /\ next_delete = 1
    /\ errors = <<>>
    /\ matched_count = 0
    /\ unmatched_count = {}
    /\ out = <<>>
    /\ call = {}
    /\ raw_matches = {}
    /\ removals = <<>>
    /\ files0 = files

----------------------------------------------------------------------------
(* run_clean *)

\* preflight without the check of lines 93-99.
preflight_without_last_check(raw_path, compressed_path) ==
    IF ~exists(raw_path) THEN {"raw_missing"}
    ELSE IF ~is_dir(raw_path) THEN {"raw_not_dir"}
    ELSE IF ~exists(compressed_path) THEN {"compressed_missing"}
    ELSE {}

\* Lines 78-99: the message of the first check that fails, None when all
\* four pass.
preflight(raw_path, compressed_path) ==
    IF ~exists(raw_path) THEN {"raw_missing"}
    ELSE IF ~is_dir(raw_path) THEN {"raw_not_dir"}
    ELSE IF ~exists(compressed_path) THEN {"compressed_missing"}
    ELSE IF ~is_dir(compressed_path) THEN {"compressed_not_dir"}
    ELSE {}

\* Lines 69-101: the checks; a failed one writes its message to stderr with
\* the path it is about and runs process::exit(1), otherwise clean_photos is
\* called.
RunClean ==
    /\ pc = "run_clean"
    /\ LET failure == preflight(raw, compressed)
       IN  IF failure # {}
           THEN /\ out' = Append(out,
                      Line("err", Unwrap(failure),
                           IF Unwrap(failure) \in {"raw_missing", "raw_not_dir"}
                           THEN raw ELSE compressed, <<>>, 0))
                /\ exit_code' = {1}
                /\ pc' = "exited"
           ELSE /\ pc' = "scan"
                /\ UNCHANGED <<out, exit_code>>
    /\ UNCHANGED <<files, dirs, locked, unreadable, raw, compressed, dry, verbose,
                   summary_only, mode, jpeg_files, next_jpeg, to_delete,
                   next_delete, errors, matched_count, unmatched_count, call,
                   raw_matches, removals, files0>>

----------------------------------------------------------------------------
(* clean_photos *)

\* Lines 174-184: the walk and the empty accumulators.
Scan ==
    /\ pc = "scan"
    /\ \E found \in get_jpeg_files(compressed) :
          /\ jpeg_files' = found
          /\ out' = out \o <<Line("out", "scanning", compressed, <<>>, 0),
                             Line("out", "found", <<>>, <<>>, Len(found))>>
    /\ to_delete' = <<>>
    /\ errors' = <<>>
    /\ matched_count' = 0
    /\ next_jpeg' = 1
    /\ pc' = "classify"
    /\ UNCHANGED <<files, dirs, locked, unreadable, raw, compressed, dry,
                   verbose, summary_only, mode, exit_code, next_delete,
                   unmatched_count, call, raw_matches, removals, files0>>

\* The push of line 194 or of line 202 made in either mode.
PushAlways(m) == TRUE

\* The push of line 194 or of line 202 left out.
PushNever(m) == FALSE

\* Line 193: a JPEG with a match goes into the plan.
PushMatched(m) == m = "Matched"

\* Line 201: a JPEG without a match goes into the plan.
PushOrphaned(m) == m = "Orphaned"

\* Lines 190 and 198, and 249: a per-file line is printed.
PerFile(v, s) == v /\ ~s

\* Lines 186-206: one iteration of the classification loop.
Classify ==
    /\ pc = "classify"
    /\ next_jpeg <= Len(jpeg_files)
    /\ LET jpeg_file == jpeg_files[next_jpeg]
           found     == find_matching_raw(jpeg_file, compressed, raw)
       IN  /\ call' = {[file |-> jpeg_file, ret |-> found.ret,
                        raw_dir |-> found.raw_dir, probed |-> found.probed]}
           /\ raw_matches' = raw_matches \cup found.ret
           /\ IF found.ret # {}
              THEN /\ matched_count' = matched_count + 1
                   /\ out' = IF PerFile(verbose, summary_only)
                             THEN Append(out, Line("out", "MATCH", jpeg_file,
                                                   Unwrap(found.ret), 0))
                             ELSE out
                   /\ to_delete' = IF PushMatched(mode)
                                   THEN Append(to_delete, jpeg_file)
                                   ELSE to_delete
              ELSE /\ matched_count' = matched_count
                   /\ out' = IF PerFile(verbose, summary_only)
                             THEN Append(out, Line("out", "NO_MATCH", jpeg_file,
                                                   <<>>, 0))
                             ELSE out
                   /\ to_delete' = IF PushOrphaned(mode)
                                   THEN Append(to_delete, jpeg_file)
                                   ELSE to_delete
    /\ next_jpeg' = next_jpeg + 1
    /\ UNCHANGED <<files, dirs, locked, unreadable, raw, compressed, dry,
                   verbose, summary_only, mode, pc, exit_code, jpeg_files,
                   next_delete, errors, unmatched_count, removals, files0>>

\* saturating_sub with its operands exchanged.
saturating_sub_swapped(a, b) == IF b >= a THEN b - a ELSE 0

\* usize::saturating_sub
saturating_sub(a, b) == IF a >= b THEN a - b ELSE 0

\* ApplyBranch taking the else branch whatever dry_run is.
ApplyBranchIgnoringDry(dry_run) == "delete"

\* Lines 232 and 244: where control goes with a plan that is not empty.
ApplyBranch(dry_run) == IF dry_run THEN "dry_report" ELSE "delete"

\* Lines 208-230: the loop has ended; the summary, and the return when
\* there is nothing to delete.
Summary ==
    /\ pc = "classify"
    /\ next_jpeg > Len(jpeg_files)
    /\ unmatched_count' = {saturating_sub(Len(jpeg_files), matched_count)}
    /\ LET summary ==
               <<Line("out", "summary", <<>>, <<>>, 0),
                 Line("out", "total", <<>>, <<>>, Len(jpeg_files)),
                 Line("out", "with_raw", <<>>, <<>>, matched_count),
                 Line("out", "without_raw", <<>>, <<>>,
                      saturating_sub(Len(jpeg_files), matched_count)),
                 Line("out", IF mode = "Orphaned" THEN "deleting_orphaned"
                             ELSE "deleting_matched", <<>>, <<>>, 0)>>
       IN  IF to_delete = <<>>
           THEN /\ out' = out \o summary \o
                          <<Line("out", IF mode = "Orphaned"
                                        THEN "nothing_all_have_raw"
                                        ELSE "nothing_none_has_raw",
                                 <<>>, <<>>, 0)>>
                /\ pc' = "exited"
                /\ exit_code' = {0}
           ELSE /\ out' = out \o summary
                /\ pc' = ApplyBranch(dry)
                /\ UNCHANGED exit_code
    /\ UNCHANGED <<files, dirs, locked, unreadable, raw, compressed, dry,
                   verbose, summary_only, mode, jpeg_files, next_jpeg,
                   to_delete, next_delete, errors, matched_count, call,
                   raw_matches, removals, files0>>

\* Lines 232-243: the dry run's report, and the return.
DryReport ==
    /\ pc = "dry_report"
    /\ out' = IF summary_only
              THEN Append(out, Line("out", "would_delete_count", <<>>, <<>>,
                                    Len(to_delete)))
              ELSE out \o <<Line("out", "would_delete_header", <<>>, <<>>, 0)>>
                       \o [k \in 1..Len(to_delete) |->
                              Line("out", "would_delete", to_delete[k], <<>>, 0)]
    /\ pc' = "exited"
    /\ exit_code' = {0}
    /\ UNCHANGED <<files, dirs, locked, unreadable, raw, compressed, dry,
                   verbose, summary_only, mode, jpeg_files, next_jpeg,
                   to_delete, next_delete, errors, matched_count,
                   unmatched_count, call, raw_matches, removals, files0>>

\* fs::remove_file succeeds on a regular file that is present and not locked.
Removable(file) == file \in files /\ file \notin locked

\* Delete leaving the loop at the first removal that fails.
DeleteAbortingOnError ==
    /\ pc = "delete"
    /\ next_delete <= Len(to_delete)
    /\ LET file   == to_delete[next_delete]
           header == IF next_delete = 1
                     THEN <<Line("out", "deleting", <<>>, <<>>, Len(to_delete))>>
                     ELSE <<>>
       IN  /\ removals' = Append(removals, file)
           /\ IF Removable(file)
              THEN /\ files' = files \ {file}
                   /\ out' = out \o header \o
                             (IF PerFile(verbose, summary_only)
                              THEN <<Line("out", "deleted", file, <<>>, 0)>>
                              ELSE <<>>)
                   /\ UNCHANGED errors
              ELSE /\ out' = out \o header \o
                             <<Line("err", "error_deleting", file, <<>>, 0)>>
                   /\ errors' = Append(errors, file)
                   /\ UNCHANGED files
    /\ next_delete' = IF Removable(to_delete[next_delete])
                       THEN next_delete + 1
                       ELSE Len(to_delete) + 1
    /\ UNCHANGED <<dirs, locked, unreadable, raw, compressed, dry, verbose,
                   summary_only, mode, pc, exit_code, jpeg_files, next_jpeg,
                   to_delete, matched_count, unmatched_count, call,
                   raw_matches, files0>>

\* Lines 245-258: the announcement, then one iteration of the deletion loop
\* per step.
Delete ==
    /\ pc = "delete"
    /\ next_delete <= Len(to_delete)
    /\ LET file   == to_delete[next_delete]
           header == IF next_delete = 1
                     THEN <<Line("out", "deleting", <<>>, <<>>, Len(to_delete))>>
                     ELSE <<>>
       IN  /\ removals' = Append(removals, file)
           /\ IF Removable(file)
              THEN /\ files' = files \ {file}
                   /\ out' = out \o header \o
                             (IF PerFile(verbose, summary_only)
                              THEN <<Line("out", "deleted", file, <<>>, 0)>>
                              ELSE <<>>)
                   /\ UNCHANGED errors
              ELSE /\ out' = out \o header \o
                             <<Line("err", "error_deleting", file, <<>>, 0)>>
                   /\ errors' = Append(errors, file)
                   /\ UNCHANGED files
    /\ next_delete' = next_delete + 1
    /\ UNCHANGED <<dirs, locked, unreadable, raw, compressed, dry, verbose,
                   summary_only, mode, pc, exit_code, jpeg_files, next_jpeg,
                   to_delete, matched_count, unmatched_count, call,
                   raw_matches, files0>>

\* Lines 260-266: the loop has ended; the closing line, and the return.
DeleteReport ==
    /\ pc = "delete"
    /\ next_delete > Len(to_delete)
    /\ out' = IF errors # <<>>
              THEN Append(out, Line("err", "errors", <<>>, <<>>, Len(errors)))
              ELSE Append(out, Line("out", "deleted_all", <<>>, <<>>,
                                    Len(to_delete)))
    /\ pc' = "exited"
    /\ exit_code' = {0}
    /\ UNCHANGED <<files, dirs, locked, unreadable, raw, compressed, dry,
                   verbose, summary_only, mode, jpeg_files, next_jpeg,
                   to_delete, next_delete, errors, matched_count,
                   unmatched_count, call, raw_matches, removals, files0>>

Next ==
    \/ RunClean
    \/ Scan
    \/ Classify
    \/ Summary
    \/ DryReport
    \/ Delete
    \/ DeleteReport

Spec == Init /\ [][Next]_vars

----------------------------------------------------------------------------
(* What the properties below speak of *)

\* The classification loop as a function of the mode: the plan lines 186-206
\* build from the discovered list.
PlanOf(m) ==
    SelectSeq(jpeg_files,
              LAMBDA f : IF find_matching_raw(f, compressed, raw).ret # {}
                         THEN PushMatched(m)
                         ELSE PushOrphaned(m))

\* jpeg_file has a raw counterpart.
HasMatch(jpeg_file) == find_matching_raw(jpeg_file, compressed, raw).ret # {}

\* The discovered JPEGs with and without a raw counterpart.
MatchedJpegs  == {f \in Range(jpeg_files) : HasMatch(f)}
OrphanedJpegs == {f \in Range(jpeg_files) : ~HasMatch(f)}

\* The classification loop has ended and the summary has been printed.
Summarized == unmatched_count # {}

\* clean_photos has returned from a run that deleted.
Deleted == pc = "exited" /\ exit_code = {0} /\ ~dry /\ to_delete # <<>>

\* The numbers displayed by the lines of one kind.
Reported(kind) == {out[i].n : i \in {j \in 1..Len(out) : out[j].kind = kind}}

----------------------------------------------------------------------------
(* Properties *)

\* C1: in a dry run, in either mode and whatever verbose and summary_only
\* are, the files of both trees are at every moment the files the run
\* started with, and fs::remove_file is never called.
C1_DryRunKeepsFiles ==
    dry => files = files0 /\ removals = <<>>

\* A dry run has reported a plan that is not empty and returned.
C1_Witness ==
    /\ dry
    /\ pc = "exited"
    /\ exit_code = {0}
    /\ to_delete # <<>>
    /\ \E i \in 1..Len(out) :
          out[i].kind \in {"would_delete", "would_delete_count"}

\* C2: once the loop has ended the plan holds exactly the discovered JPEGs
\* without a match in orphaned mode and exactly those with a match in matched
\* mode; after a run that deleted and in which no removal failed, exactly the
\* planned files are gone and every other discovered JPEG is still present.
C2_PlanIsTheSelectedJpegs ==
    /\ Summarized =>
          Range(to_delete) = IF mode = "Orphaned" THEN OrphanedJpegs
                             ELSE MatchedJpegs
    /\ Deleted /\ errors = <<>> =>
          /\ files = files0 \ Range(to_delete)
          /\ Range(jpeg_files) \ Range(to_delete) \subseteq files

\* clean has deleted the one JPEG without a match and left the one with a
\* match.
C2_Witness ==
    /\ Deleted
    /\ errors = <<>>
    /\ mode = "Orphaned"
    /\ Cardinality(MatchedJpegs) = 1
    /\ Cardinality(OrphanedJpegs) = 1
    /\ files = files0 \ OrphanedJpegs
    /\ MatchedJpegs \subseteq files

\* C3: over the same trees and the same discovered list, the plan of this
\* run's mode and the plan of the other mode partition the discovered JPEGs.
C3_PlansPartitionTheJpegs ==
    Summarized =>
        LET other == IF mode = "Orphaned" THEN "Matched" ELSE "Orphaned"
        IN  /\ Range(to_delete) \cup Range(PlanOf(other)) = Range(jpeg_files)
            /\ Range(to_delete) \cap Range(PlanOf(other)) = {}

\* Both plans are non-empty.
C3_Witness ==
    /\ Summarized
    /\ to_delete # <<>>
    /\ Range(to_delete) # Range(jpeg_files)

\* C4: in a run that deletes, fs::remove_file is called on the planned
\* files in plan order, once each: the calls made so far are a prefix of the
\* plan and, when the run returns, the whole plan. Every call that failed is
\* recorded in errors, and when the run returns every planned file whose
\* removal can succeed is gone.
C4_EveryPlannedFileIsTriedOnce ==
    /\ removals = SubSeq(to_delete, 1, Len(removals))
    /\ Len(removals) <= Len(to_delete)
    /\ \A i, j \in 1..Len(removals) : removals[i] = removals[j] => i = j
    /\ errors = SelectSeq(removals, LAMBDA f : f \in locked)
    /\ Deleted =>
          /\ removals = to_delete
          /\ \A f \in Range(to_delete) : f \notin locked => f \notin files
          /\ \A f \in Range(to_delete) : f \in locked => f \in files

\* The second of three removals failed, the first and the third succeeded.
C4_Witness ==
    /\ Deleted
    /\ Len(to_delete) = 3
    /\ errors = <<to_delete[2]>>
    /\ to_delete[1] \notin files
    /\ to_delete[3] \notin files

\* The extensions of the candidate sequence, in order.
CandidateExtensions ==
    << <<"r", "a", "f">>, <<"R", "A", "F">>, <<"c", "r", "2">>,
       <<"C", "R", "2">>, <<"c", "r", "3">>, <<"C", "R", "3">>,
       <<"n", "e", "f">>, <<"N", "E", "F">>, <<"a", "r", "w">>,
       <<"A", "R", "W">>, <<"d", "n", "g">>, <<"D", "N", "G">>,
       <<"o", "r", "f">>, <<"O", "R", "F">>, <<"r", "w", "2">>,
       <<"R", "W", "2">>, <<"r", "a", "w">>, <<"R", "A", "W">> >>

\* The candidate sequence of a call: stem.raf, stem.RAF, ..., stem.RAW in
\* the candidate raw directory.
Candidates(c) ==
    [i \in 1..Len(CandidateExtensions) |->
        Unwrap(c.raw_dir) \o
        << Unwrap(file_stem(c.file)) \o <<".">> \o CandidateExtensions[i] >>]

\* C5: when the candidate raw directory exists, find_matching_raw returns the
\* first existing path of the candidate sequence and has tested the
\* candidates up to that one and none after it; it returns no match exactly
\* when no candidate exists, having tested them all.
C5_FirstExistingCandidate ==
    \A c \in call :
        c.raw_dir # {} /\ exists(Unwrap(c.raw_dir)) =>
            LET cand == Candidates(c)
                hits == {i \in 1..Len(cand) : exists(cand[i])}
            IN  /\ c.raw_dir = {raw \o Unwrap(parent(Unwrap(strip_prefix(c.file, compressed))))}
                /\ IF hits = {}
                   THEN c.ret = {} /\ c.probed = cand
                   ELSE LET first == CHOOSE i \in hits : \A j \in hits : i <= j
                        IN  /\ c.ret = {cand[first]}
                            /\ c.probed = SubSeq(cand, 1, first)

\* stem.RAF was returned although stem.cr2 exists too: the upper-case
\* spelling was tested after the lower-case one and before the next extension.
C5_Witness ==
    \E c \in call :
        /\ c.ret = {DirR \o << <<"a", ".", "R", "A", "F">> >>}
        /\ DirR \o << <<"a", ".", "c", "r", "2">> >> \in files
        /\ Len(c.probed) = 2

\* C6: when the candidate raw directory does not exist, find_matching_raw
\* returns no match and has tested the existence of no candidate file.
C6_MissingRawDirIsNotProbed ==
    \A c \in call :
        c.raw_dir # {} /\ ~exists(Unwrap(c.raw_dir)) =>
            c.ret = {} /\ c.probed = <<>>

\* A JPEG of a subdirectory was looked up and the raw tree has no such
\* subdirectory.
C6_Witness ==
    \E c \in call :
        /\ c.raw_dir # {}
        /\ ~exists(Unwrap(c.raw_dir))
        /\ Len(Unwrap(c.raw_dir)) > Len(raw)

\* C7: once the summary is printed, the three counts it displays are the
\* number of discovered JPEGs, the number of them with a match and their
\* difference, total = matched + unmatched, and the plan has unmatched
\* elements in orphaned mode and matched elements in matched mode.
C7_SummaryCountsAddUp ==
    Summarized =>
        /\ matched_count = Cardinality(MatchedJpegs)
        /\ Len(jpeg_files) = matched_count + Unwrap(unmatched_count)
        /\ Reported("total") = {Len(jpeg_files)}
        /\ Reported("with_raw") = {matched_count}
        /\ Reported("without_raw") = unmatched_count
        /\ Len(to_delete) = IF mode = "Orphaned" THEN Unwrap(unmatched_count)
                            ELSE matched_count

\* A summary with a matched and an unmatched JPEG.
C7_Witness ==
    /\ Summarized
    /\ matched_count >= 1
    /\ Unwrap(unmatched_count) >= 1

\* C8: while a root does not exist or is not a directory, the run is either
\* still before its checks or has ended with exit code 1, and then nothing
\* was scanned, matched or removed; whenever control is past the checks, all
\* four of them hold.
C8_PreflightBeforeScanning ==
    /\ (~exists(raw) \/ ~is_dir(raw) \/ ~exists(compressed) \/ ~is_dir(compressed)) =>
          /\ pc \in {"run_clean", "exited"}
          /\ pc = "exited" => exit_code = {1}
          /\ Reported("scanning") = {}
          /\ jpeg_files = <<>>
          /\ call = {}
          /\ removals = <<>>
          /\ files = files0
    /\ (pc # "run_clean" /\ exit_code # {1}) =>
          exists(raw) /\ is_dir(raw) /\ exists(compressed) /\ is_dir(compressed)

\* The compressed root is a regular file and the process has ended with 1.
C8_Witness ==
    /\ pc = "exited"
    /\ exit_code = {1}
    /\ exists(compressed)
    /\ ~is_dir(compressed)

\* C9: with summary_only set, no line that displays the path of one file is
\* written, on either stream.
C9_SummaryOnlyPrintsNoFileLine ==
    summary_only => \A i \in 1..Len(out) : out[i].kind \notin PerFileKinds

\* C10: every file on which fs::remove_file is called, and every file that
\* is gone, is a discovered JPEG: a regular file below the compressed root
\* whose lower-cased extension is jpg or jpeg. No path find_matching_raw
\* returned is removed, every file of the raw tree that is not a discovered
\* JPEG stays, and no removal precedes the end of the classification loop.
C10_OnlyDiscoveredJpegsAreRemoved ==
    /\ \A f \in Range(removals) \cup (files0 \ files) :
          /\ f \in Range(jpeg_files)
          /\ f \in files0
          /\ Under(f, compressed)
          /\ extension(f) # {}
          /\ to_lowercase(Unwrap(extension(f))) \in {Jpg, Jpeg}
    /\ raw_matches \cap Range(removals) = {}
    /\ raw_matches \subseteq files \cup dirs
    /\ \A f \in files0 : Under(f, raw) /\ f \notin Range(jpeg_files) => f \in files
    /\ removals # <<>> => next_jpeg > Len(jpeg_files) /\ Summarized

\* The raw root is the compressed root or one lies in the other; a JPEG was
\* matched in that tree and a JPEG was removed from it.
C10_Witness ==
    /\ Under(raw, compressed) \/ Under(compressed, raw)
    /\ raw_matches # {}
    /\ files # files0

====
